---- MODULE Spec2Model ----
(***************************************************************************)
(* Model of bootstrap.py: the command-line scaffolder that writes LICENSE, *)
(* README.md, a package directory, setup.py and .travis.yml from an        *)
(* options record that is filled lazily by prompting or by derivation.     *)
(*                                                                         *)
(* Strings are sequences of one-character strings, so that lower(),        *)
(* re.sub(), str.replace(), "in" and str.format() padding are computed     *)
(* character by character.  An optional value (a Python value that may be  *)
(* None) is a sequence of length at most one: <<>> is None, <<v>> is v.    *)
(***************************************************************************)
EXTENDS Integers, Sequences, FiniteSets, TLC

VARIABLES
    argv,         \* raw command line: what the user typed, before parse_args
    stdin,        \* lines still unread on standard input (then end of file)
    opts,         \* the options record (argparse Namespace)
    pc,           \* position of the run in __main__
    exit_code,    \* process exit status, None while running
    error,        \* what ended the run abnormally, None otherwise
    files,        \* path -> content of every file opened for writing
    dirs,         \* directories created by os.makedirs
    out,          \* lines printed on standard output
    asked,        \* field -> number of times user_input was called for it
    derived,      \* field -> number of times a transform result was stored
    ran,          \* renderers entered so far, in order
    resp,         \* response of the license fetch, None while there is none
    git_calls,    \* number of git config lookups made
    name_in,      \* input of the name-transform specification
    snake_out,    \* snake_case(name_in) once applied
    hyph_out,     \* hyphenated(name_in) once applied
    col_in,       \* input list of the columnize specification
    col_slices,   \* lst1, lst2, lst3 of columnize
    col_rows      \* the rows columnize yields

vars == <<argv, stdin, opts, pc, exit_code, error, files, dirs, out, asked,
          derived, ran, resp, git_calls, name_in, snake_out, hyph_out,
          col_in, col_slices, col_rows>>

mainVars == <<argv, stdin, opts, exit_code, error, files, dirs, out, asked,
              derived, ran, resp, git_calls>>

nameVars == <<name_in, snake_out, hyph_out>>

colVars == <<col_in, col_slices, col_rows>>

----------------------------------------------------------------------------
(* Bounds *)

MaxStdin == 3      \* longest standard input, in lines
MaxNameLen == 3    \* longest package name of the name-transform specification
MaxItems == 6      \* longest list given to columnize
MaxPieces == 3     \* most pieces a fetched license text is built from

----------------------------------------------------------------------------
(* Optional values and strings *)

None == <<>>

Some(v) == <<v>>

Val(o) == o[1]

Upper == <<"A","B","C","D","E","F","G","H","I","J","K","L","M",
           "N","O","P","Q","R","S","T","U","V","W","X","Y","Z">>

LowerLetters == <<"a","b","c","d","e","f","g","h","i","j","k","l","m",
                  "n","o","p","q","r","s","t","u","v","w","x","y","z">>

Digits == <<"0","1","2","3","4","5","6","7","8","9">>

Range(s) == {s[i] : i \in 1..Len(s)}

LowerChar(c) ==
    IF \E i \in 1..Len(Upper) : Upper[i] = c
    THEN LowerLetters[CHOOSE i \in 1..Len(Upper) : Upper[i] = c]
    ELSE c

\* str.lower()
Lower(s) == [i \in 1..Len(s) |-> LowerChar(s[i])]

\* re.sub('[<chars>]', repl, s) for a character class and a one-character
\* replacement
ReSubClass(chars, repl, s) ==
    [i \in 1..Len(s) |-> IF s[i] \in chars THEN repl ELSE s[i]]

StartsWithAt(s, i, sub) ==
    /\ i + Len(sub) - 1 <= Len(s)
    /\ \A k \in 1..Len(sub) : s[i + k - 1] = sub[k]

\* sub in s
Contains(sub, s) == \E i \in 1..(Len(s) + 1) : StartsWithAt(s, i, sub)

RECURSIVE ReplaceFrom(_, _, _, _)
ReplaceFrom(s, i, old, new) ==
    IF i > Len(s) THEN <<>>
    ELSE IF StartsWithAt(s, i, old)
         THEN new \o ReplaceFrom(s, i + Len(old), old, new)
         ELSE <<s[i]>> \o ReplaceFrom(s, i + 1, old, new)

\* s.replace(old, new) for a non-empty old: leftmost non-overlapping
\* occurrences, the replacement text is not rescanned
Replace(s, old, new) == ReplaceFrom(s, 1, old, new)

RECURSIVE Flatten(_)
Flatten(ss) == IF ss = <<>> THEN <<>> ELSE Head(ss) \o Flatten(Tail(ss))

RECURSIVE Spaces(_)
Spaces(n) == IF n <= 0 THEN <<>> ELSE <<" ">> \o Spaces(n - 1)

\* '{:<w}'.format(s)
LJust(s, w) == s \o Spaces(w - Len(s))

IsSpace(c) == c \in {" ", "\n", "\t"}

RECURSIVE LStrip(_)
LStrip(s) == IF s # <<>> /\ IsSpace(Head(s)) THEN LStrip(Tail(s)) ELSE s

RECURSIVE RStrip(_)
RStrip(s) ==
    IF s # <<>> /\ IsSpace(s[Len(s)])
    THEN RStrip(SubSeq(s, 1, Len(s) - 1))
    ELSE s

\* str.strip()
Strip(s) == LStrip(RStrip(s))

RECURSIVE DigitsOf(_)
DigitsOf(n) ==
    IF n < 10 THEN <<Digits[n + 1]>>
    ELSE DigitsOf(n \div 10) \o <<Digits[(n % 10) + 1]>>

\* datetime.strftime('%Y') for a year of four digits
StrftimeY(year) == DigitsOf(year)

SeqsUpTo(S, n) == UNION {[1..k -> S] : k \in 0..n}

----------------------------------------------------------------------------
(* Program constants *)

SUPPORTED_LICENSES == <<
    <<"a","f","l","-","3",".","0">>,
    <<"a","g","p","l","-","3",".","0">>,
    <<"a","p","a","c","h","e","-","2",".","0">>,
    <<"a","r","t","i","s","t","i","c","-","2",".","0">>,
    <<"b","s","d","-","2","-","c","l","a","u","s","e">>,
    <<"b","s","d","-","3","-","c","l","a","u","s","e","-","c","l","e","a","r">>,
    <<"b","s","d","-","3","-","c","l","a","u","s","e">>,
    <<"b","s","l","-","1",".","0">>,
    <<"c","c","-","b","y","-","4",".","0">>,
    <<"c","c","-","b","y","-","s","a","-","4",".","0">>,
    <<"c","c","0","-","1",".","0">>,
    <<"e","c","l","-","2",".","0">>,
    <<"e","p","l","-","1",".","0">>,
    <<"e","p","l","-","2",".","0">>,
    <<"e","u","p","l","-","1",".","1">>,
    <<"e","u","p","l","-","1",".","2">>,
    <<"g","p","l","-","2",".","0">>,
    <<"g","p","l","-","3",".","0">>,
    <<"i","s","c">>,
    <<"l","g","p","l","-","2",".","1">>,
    <<"l","g","p","l","-","3",".","0">>,
    <<"l","p","p","l","-","1",".","3","c">>,
    <<"m","i","t">>,
    <<"m","p","l","-","2",".","0">>,
    <<"m","s","-","p","l">>,
    <<"m","s","-","r","l">>,
    <<"n","c","s","a">>,
    <<"o","f","l","-","1",".","1">>,
    <<"o","s","l","-","3",".","0">>,
    <<"p","o","s","t","g","r","e","s","q","l">>,
    <<"u","n","l","i","c","e","n","s","e">>,
    <<"u","p","l","-","1",".","0">>,
    <<"w","t","f","p","l">>,
    <<"z","l","i","b">>
>>

SUPPORTED_CI_SERVICES == << <<"t","r","a","v","i","s">> >>

MIT == <<"m","i","t">>

TRAVIS == <<"t","r","a","v","i","s">>

LICENSE_WORD == <<"l","i","c","e","n","s","e">>

YEAR_TOKEN == <<"[","y","e","a","r","]">>

FULLNAME_TOKEN == <<"[","f","u","l","l","n","a","m","e","]">>

FieldWidth == 20

----------------------------------------------------------------------------
(* Pure functions *)

str_lower(s) == Lower(s)

hyphenated(s) == ReSubClass({" ", "_"}, "-", Lower(s))

snake_case_nolower(s) == ReSubClass({" ", "-"}, "_", s)

snake_case(s) == ReSubClass({" ", "-"}, "_", Lower(s))

column_slices_lossy(lst) ==
    LET split == Len(lst) \div 3
    IN  << SubSeq(lst, 1, split),
           SubSeq(lst, split + 1, split + split),
           SubSeq(lst, split + split + 2, Len(lst)) >>

column_slices_thirds(lst) ==
    LET n == Len(lst)
    IN  << SubSeq(lst, 1, n \div 3),
           SubSeq(lst, (n \div 3) + 1, (2 * n) \div 3),
           SubSeq(lst, ((2 * n) \div 3) + 1, n) >>

\* the three slices lst1, lst2, lst3 taken by columnize
column_slices(lst) ==
    LET split == Len(lst) \div 3
    IN  << SubSeq(lst, 1, split),
           SubSeq(lst, split + 1, split + split),
           SubSeq(lst, split + split + 1, Len(lst)) >>

MaxOf(S) == CHOOSE m \in S : \A x \in S : x <= m

\* itertools.zip_longest over three lists: missing entries are None
zip_longest(l1, l2, l3) ==
    LET n == MaxOf({Len(l1), Len(l2), Len(l3)})
        cell(l, i) == IF i <= Len(l) THEN Some(l[i]) ELSE None
    IN  [i \in 1..n |-> << cell(l1, i), cell(l2, i), cell(l3, i) >>]

\* '{:<20s} {:<20s} {}'.format(*(r if r is not None else '' for r in row))
format_row(row) ==
    LET txt(c) == IF c = None THEN <<>> ELSE Val(c)
    IN  LJust(txt(row[1]), FieldWidth) \o <<" ">>
        \o LJust(txt(row[2]), FieldWidth) \o <<" ">> \o txt(row[3])

columnize(lst) ==
    LET cols == column_slices(lst)
        rows == zip_longest(cols[1], cols[2], cols[3])
    IN  [i \in 1..Len(rows) |-> format_row(rows[i])]

----------------------------------------------------------------------------
(* The options resolver.  The operators below thread a "world" record      *)
(*   [opts, stdin, asked, derived, files, dirs, err]                       *)
(* through the calls a renderer makes, in the order the code makes them.   *)
(* err is "none" until a call raises; a raised exception propagates, so    *)
(* every later call of the same renderer is skipped.                       *)

PromptFields == {"package", "package_snakecase", "package_hyphenated",
                 "description", "author_name", "author_email",
                 "github_username", "pypi_username", "travis_username"}

Raised(w) == w.err # "none"

require_opt_always(w, name) ==
    IF Raised(w) THEN w
    ELSE IF w.stdin = <<>>
         THEN [w EXCEPT !.asked[name] = @ + 1, !.err = "EOFError"]
         ELSE [w EXCEPT !.asked[name] = @ + 1,
                        !.opts[name] = Some(Head(w.stdin)),
                        !.stdin = Tail(w.stdin)]

\* require_opt: prompt for the field when it is None.  user_input reads the
\* next line of standard input and raises EOFError at end of file; _type is
\* str at every call site, the identity on a line.
require_opt(w, name) ==
    IF Raised(w) THEN w
    ELSE IF w.opts[name] = None
         THEN IF w.stdin = <<>>
              THEN [w EXCEPT !.asked[name] = @ + 1, !.err = "EOFError"]
              ELSE [w EXCEPT !.asked[name] = @ + 1,
                             !.opts[name] = Some(Head(w.stdin)),
                             !.stdin = Tail(w.stdin)]
         ELSE w

\* a transform passed to derive_opt is named by a string; the default
\* (lambda x: x) is "identity"
call(transform, x) ==
    CASE transform = "snake_case" -> snake_case(x)
      [] transform = "hyphenated" -> hyphenated(x)
      [] transform = "identity" -> x

derive_opt_untransformed(w, name, derived_from, transform) ==
    IF Raised(w) THEN w
    ELSE IF w.opts[name] = None
         THEN LET w2 == require_opt(w, derived_from)
              IN  IF Raised(w2) THEN w2
                  ELSE [w2 EXCEPT !.opts[name] = w2.opts[derived_from],
                                  !.derived[name] = @ + 1]
         ELSE w

\* derive_opt: when the field is None, resolve derived_from through
\* require_opt and store transform(value)
derive_opt(w, name, derived_from, transform) ==
    IF Raised(w) THEN w
    ELSE IF w.opts[name] = None
         THEN LET w2 == require_opt(w, derived_from)
              IN  IF Raised(w2) THEN w2
                  ELSE [w2 EXCEPT
                          !.opts[name] =
                              Some(call(transform, Val(w2.opts[derived_from]))),
                          !.derived[name] = @ + 1]
         ELSE w

----------------------------------------------------------------------------
(* Files.  A path is a sequence of components, a component is a string.    *)
(* open(path, 'w') creates or truncates the file at once; the text arrives *)
(* when the with-block completes.  The fixed text of a template between    *)
(* two placeholders is kept as one element of the written sequence.        *)

Path(name) == << <<name>> >>

Join(d, name) == << d, <<name>> >>

Opened == [complete |-> FALSE, text |-> <<>>]

Written(t) == [complete |-> TRUE, text |-> t]

\* with open(path, 'w'): the file exists, empty, before the body runs
open_w(w, path) ==
    IF Raised(w) THEN w
    ELSE [w EXCEPT !.files = (path :> Opened) @@ w.files]

\* f.write(text) and the close at the end of the with-block
write(w, path, text) ==
    IF Raised(w) THEN w
    ELSE [w EXCEPT !.files = (path :> Written(text)) @@ w.files]

\* os.makedirs(d, exist_ok=True): the empty path raises FileNotFoundError
makedirs(w, d) ==
    IF Raised(w) THEN w
    ELSE IF d = <<>> THEN [w EXCEPT !.err = "FileNotFoundError"]
         ELSE [w EXCEPT !.dirs = @ \cup {d}]

----------------------------------------------------------------------------
(* Renderers *)

create_badge(alt_text, image, url) ==
    <<"[![">> \o alt_text \o <<"](">> \o image \o <<")](">> \o url \o <<")">>

travis_url(o) ==
    <<"https://travis-ci.com/">> \o Val(o.travis_username) \o <<"/">>
    \o Val(o.package_snakecase)

create_travis_badge(w) ==
    derive_opt(require_opt(w, "travis_username"),
               "package_snakecase", "package", "snake_case")

travis_badge(o) ==
    create_badge(<<"Build Status">>,
                 travis_url(o) \o <<".svg?branch=master">>, travis_url(o))

create_pypi_badge(w) ==
    derive_opt(w, "package_hyphenated", "package", "hyphenated")

pypi_badge(o) ==
    create_badge(<<"PyPI">>, <<"https://img.shield.io/pypi/v/nine.svg">>,
                 <<"https://pypi.org/project/">> \o Val(o.package_hyphenated))

readme_text(o) ==
    (IF o.ci = Some(TRAVIS) THEN travis_badge(o) ELSE <<>>)
    \o (IF ~o.no_pypi THEN pypi_badge(o) ELSE <<>>)
    \o <<"\n\n\n# ">> \o Val(o.package) \o <<"\n">> \o Val(o.description)
    \o <<"\n\n\n## Installation\n<fence>bash\npip install ">>
    \o Val(o.package_hyphenated) \o <<"\n<fence>\n">>

create_readme_md(w) ==
    LET w1 == IF w.opts.ci = Some(TRAVIS) THEN create_travis_badge(w) ELSE w
        w2 == IF ~w1.opts.no_pypi THEN create_pypi_badge(w1) ELSE w1
        w3 == open_w(w2, Path("README.md"))
        w4 == require_opt(w3, "package")
        w5 == require_opt(w4, "description")
        w6 == derive_opt(w5, "package_hyphenated", "package", "hyphenated")
    IN  IF Raised(w6) THEN w6
        ELSE write(w6, Path("README.md"), readme_text(w6.opts))

create_package_directory_no_version(w) ==
    LET w1 == derive_opt(w, "package_snakecase", "package", "snake_case")
        d  == IF Raised(w1) THEN <<>> ELSE Val(w1.opts.package_snakecase)
        w2 == makedirs(w1, d)
        w3 == open_w(w2, Join(d, "__init__.py"))
    IN  write(w3, Join(d, "__init__.py"),
              <<"from .__version__ import VERSION\n">>)

create_package_directory(w) ==
    LET w1 == derive_opt(w, "package_snakecase", "package", "snake_case")
        d  == IF Raised(w1) THEN <<>> ELSE Val(w1.opts.package_snakecase)
        w2 == makedirs(w1, d)
        w3 == open_w(w2, Join(d, "__init__.py"))
        w4 == write(w3, Join(d, "__init__.py"),
                    <<"from .__version__ import VERSION\n">>)
        w5 == open_w(w4, Join(d, "__version__.py"))
    IN  write(w5, Join(d, "__version__.py"), <<"VERSION = '1.0.0'\n">>)

setup_text(o) ==
    <<"<setup.py: imports> from ">> \o Val(o.package_snakecase)
    \o <<".__version__ import VERSION <changelog, main> name=">>
    \o Val(o.package_snakecase) \o <<" author=">> \o Val(o.author_name)
    \o <<" author_email=">> \o Val(o.author_email)
    \o <<" description=">> \o Val(o.description)
    \o <<" url=https://github.com/">> \o Val(o.github_username) \o <<"/">>
    \o Val(o.package_snakecase) \o <<" <packages, classifiers>">>

create_setup_py(w) ==
    LET w1 == open_w(w, Path("setup.py"))
        w2 == require_opt(w1, "description")
        w3 == derive_opt(w2, "package_snakecase", "package", "snake_case")
        w4 == require_opt(w3, "github_username")
        w5 == require_opt(w4, "author_name")
        w6 == require_opt(w5, "author_email")
    IN  IF Raised(w6) THEN w6
        ELSE write(w6, Path("setup.py"), setup_text(w6.opts))

travis_text(o) ==
    <<"<.travis.yml: language, matrix, scripts> user: ">>
    \o Val(o.pypi_username) \o <<" <deploy> repo: ">>
    \o Val(o.github_username) \o <<"/">> \o Val(o.package_snakecase)
    \o <<" python: '3.6'\n">>

create_travis_config(w) ==
    LET w1 == open_w(w, Path(".travis.yml"))
        w2 == require_opt(w1, "pypi_username")
        w3 == require_opt(w2, "github_username")
        w4 == derive_opt(w3, "package_snakecase", "package", "snake_case")
    IN  IF Raised(w4) THEN w4
        ELSE write(w4, Path(".travis.yml"), travis_text(w4.opts))

create_ci_config(w) ==
    IF w.opts.ci = Some(TRAVIS) THEN create_travis_config(w) ELSE w

license_text_year_only(text, o) ==
    Replace(text, YEAR_TOKEN, StrftimeY(Val(o.now)))

\* text.replace('[year]', now.strftime('%Y')).replace('[fullname]', author)
license_text(text, o) ==
    Replace(Replace(text, YEAR_TOKEN, StrftimeY(Val(o.now))),
            FULLNAME_TOKEN, Val(o.author_name))

create_license_md_unchecked(w, r) ==
    IF Raised(w) THEN w
    ELSE IF r.raised THEN [w EXCEPT !.err = "ConnectionError"]
    ELSE IF r.text = None THEN [w EXCEPT !.err = "ValueError"]
    ELSE write(open_w(w, Path("LICENSE")), Path("LICENSE"),
               license_text(Val(r.text), w.opts))

\* r is the outcome of requests.get: it raised, or it returned a status
\* code and a body whose JSON 'text' member is r.text (None when the
\* body does not decode to an object with that member)
create_license_md(w, r) ==
    IF Raised(w) THEN w
    ELSE IF r.raised THEN [w EXCEPT !.err = "ConnectionError"]
    ELSE IF r.status_code # 200 THEN [w EXCEPT !.err = "SystemExit"]
    ELSE IF r.text = None THEN [w EXCEPT !.err = "ValueError"]
    ELSE write(open_w(w, Path("LICENSE")), Path("LICENSE"),
               license_text(Val(r.text), w.opts))

----------------------------------------------------------------------------
(* Command line *)

InChoices(v, choices) == \E i \in 1..Len(choices) : choices[i] = v

\* An optional-value flag (nargs='?') is None when absent, Some(None) when
\* given alone and Some(Some(v)) when given with the value v.
flag_value(raw, const) ==
    IF raw = None THEN None
    ELSE IF Val(raw) = None THEN Some(const)
    ELSE Some(str_lower(Val(Val(raw))))

NoOpts ==
    [help |-> None, description |-> None, license |-> None, ci |-> None,
     package |-> None, no_readme |-> FALSE, no_package |-> FALSE,
     no_pypi |-> FALSE, no_setup |-> FALSE, now |-> None,
     package_snakecase |-> None, package_hyphenated |-> None,
     author_name |-> None, author_email |-> None,
     github_username |-> None, pypi_username |-> None,
     travis_username |-> None]

\* the Namespace parse_args builds from the arguments build_cli declares
parse_args(a) ==
    [NoOpts EXCEPT
        !.help = flag_value(a.help, <<>>),
        !.description = a.description,
        !.license = flag_value(a.license, MIT),
        !.ci = flag_value(a.ci, TRAVIS),
        !.package = a.package,
        !.no_readme = a.no_readme,
        !.no_package = a.no_package,
        !.no_pypi = a.no_pypi,
        !.no_setup = a.no_setup]

\* choices= validation of --license and --ci
parse_error(a) ==
    LET o == parse_args(a)
    IN  \/ o.license # None /\ ~InChoices(Val(o.license), SUPPORTED_LICENSES)
        \/ o.ci # None /\ ~InChoices(Val(o.ci), SUPPORTED_CI_SERVICES)

\* the lines display_help prints
display_help(help_target) ==
    IF help_target = <<>> THEN << <<"<usage>">> >>
    ELSE IF Contains(LICENSE_WORD, help_target)
         THEN << <<"Supported licenses:">> >>
              \o columnize(SUPPORTED_LICENSES)
              \o << <<"If no value is provided, MIT license is used.">> >>
         ELSE << <<"No help available for \"">> \o help_target \o <<"\"">> >>

----------------------------------------------------------------------------
(* Inputs of a run *)

Lines == { <<"A", " ", "b">>, <<"c", "-", "D">>, <<>> }

HelpArgs == { None, Some(None), Some(Some(<<"L","i","c","e","n","s","e","s">>)),
              Some(Some(<<"c","i">>)) }

LicenseArgs == { None, Some(None), Some(Some(<<"I","S","C">>)),
                 Some(Some(<<"b","o","g","u","s">>)) }

CiArgs == { None, Some(None) }

Argvs ==
    [help : HelpArgs, license : LicenseArgs, ci : CiArgs,
     description : {None, Some(<<"d">>)},
     package : {None, Some(<<"M", "y", " ", "A", "_", "p">>)},
     no_readme : BOOLEAN, no_package : BOOLEAN, no_pypi : BOOLEAN,
     no_setup : BOOLEAN]

Years == {2024}

\* what `git config user.name` / `git config user.email` print, or "failed"
\* when git exits non-zero (check_output raises CalledProcessError)
GitNameResults == { [ok |-> TRUE, out |-> <<"J", " ", "D", "\n">>],
                    [ok |-> FALSE, out |-> <<>>] }

GitEmailResults == { [ok |-> TRUE, out |-> <<"j", "@", "d", "\n">>],
                     [ok |-> FALSE, out |-> <<>>] }

Response(raised, status, text) ==
    [raised |-> raised, status_code |-> status, text |-> text]

SampleText == <<"(", "c", ")", " ">> \o YEAR_TOKEN \o <<" ">> \o FULLNAME_TOKEN

Responses ==
    { Response(TRUE, 0, None), Response(FALSE, 404, None),
      Response(FALSE, 500, Some(SampleText)), Response(FALSE, 200, None),
      Response(FALSE, 200, Some(SampleText)) }

----------------------------------------------------------------------------
(* The run: __main__ *)

EmptyFiles == [p \in {} |-> Opened]

World ==
    [opts |-> opts, stdin |-> stdin, asked |-> asked, derived |-> derived,
     files |-> files, dirs |-> dirs, err |-> "none"]

Commit_swallow(w, next) ==
    /\ opts' = w.opts
    /\ stdin' = w.stdin
    /\ asked' = w.asked
    /\ derived' = w.derived
    /\ files' = w.files
    /\ dirs' = w.dirs
    /\ pc' = next
    /\ exit_code' = IF next = "done" THEN Some(0) ELSE exit_code
    /\ error' = w.err

\* The effects of one step of __main__ become the state; an exception the
\* step raised is not caught anywhere, so the process ends with status 1
\* and no later step runs.  Falling off the end of the script exits 0.
Commit(w, next) ==
    /\ opts' = w.opts
    /\ stdin' = w.stdin
    /\ asked' = w.asked
    /\ derived' = w.derived
    /\ files' = w.files
    /\ dirs' = w.dirs
    /\ IF Raised(w)
       THEN /\ pc' = "exited"
            /\ exit_code' = Some(1)
            /\ error' = w.err
       ELSE /\ pc' = next
            /\ exit_code' = IF next = "done" THEN Some(0) ELSE exit_code
            /\ error' = error

ParseArgs ==
    /\ pc = "start"
    /\ IF parse_error(argv)
       THEN /\ pc' = "exited"
            /\ exit_code' = Some(2)
            /\ error' = "ArgumentError"
            /\ opts' = opts
       ELSE /\ pc' = "parsed"
            /\ opts' = parse_args(argv)
            /\ UNCHANGED <<exit_code, error>>
    /\ UNCHANGED <<argv, stdin, files, dirs, out, asked, derived, ran,
                   resp, git_calls>>
    /\ UNCHANGED <<nameVars, colVars>>


MainHelp_returns ==
    /\ pc = "parsed"
    /\ IF opts.help # None
       THEN /\ out' = out \o display_help(Val(opts.help))
            /\ pc' = "now"
            /\ UNCHANGED <<exit_code>>
       ELSE /\ pc' = "now"
            /\ UNCHANGED <<out, exit_code>>
    /\ UNCHANGED <<argv, stdin, opts, error, files, dirs, asked, derived,
                   ran, resp, git_calls>>
    /\ UNCHANGED <<nameVars, colVars>>

\* if opts.help is not None: display_help(parser, opts.help), which prints
\* and raises SystemExit(0)
MainHelp ==
    /\ pc = "parsed"
    /\ IF opts.help # None
       THEN /\ out' = out \o display_help(Val(opts.help))
            /\ pc' = "exited"
            /\ exit_code' = Some(0)
       ELSE /\ pc' = "now"
            /\ UNCHANGED <<out, exit_code>>
    /\ UNCHANGED <<argv, stdin, opts, error, files, dirs, asked, derived,
                   ran, resp, git_calls>>
    /\ UNCHANGED <<nameVars, colVars>>

\* setattr(opts, 'now', datetime.now())
SetNow ==
    /\ pc = "now"
    /\ \E y \in Years : opts' = [opts EXCEPT !.now = Some(y)]
    /\ pc' = "author_name"
    /\ UNCHANGED <<argv, stdin, exit_code, error, files, dirs, out, asked,
                   derived, ran, resp, git_calls>>
    /\ UNCHANGED <<nameVars, colVars>>

\* get_cli_output: check_output raises when git exits non-zero, otherwise
\* the decoded output is stripped
get_cli_output(w, res) ==
    IF res.ok THEN w ELSE [w EXCEPT !.err = "CalledProcessError"]

GitLookup(field, res, next) ==
    IF opts[field] = None
    THEN /\ git_calls' = git_calls + 1
         /\ LET w == get_cli_output(World, res)
            IN  Commit(IF Raised(w) THEN w
                       ELSE [w EXCEPT !.opts[field] = Some(Strip(res.out))],
                       next)
    ELSE /\ git_calls' = git_calls
         /\ Commit(World, next)

GetAuthorName ==
    /\ pc = "author_name"
    /\ \E res \in GitNameResults : GitLookup("author_name", res, "author_email")
    /\ UNCHANGED <<argv, out, ran, resp>>
    /\ UNCHANGED <<nameVars, colVars>>

GetAuthorEmail ==
    /\ pc = "author_email"
    /\ \E res \in GitEmailResults : GitLookup("author_email", res, "license")
    /\ UNCHANGED <<argv, out, ran, resp>>
    /\ UNCHANGED <<nameVars, colVars>>

\* if opts.license is not None: create_license_md(opts)
MainLicense(r) ==
    /\ pc = "license"
    /\ IF opts.license # None
       THEN /\ Commit(create_license_md(World, r), "readme")
            /\ ran' = Append(ran, "license")
            /\ resp' = IF r.raised THEN None ELSE Some(r)
       ELSE /\ Commit(World, "readme")
            /\ UNCHANGED <<ran, resp>>
    /\ UNCHANGED <<argv, out, git_calls>>
    /\ UNCHANGED <<nameVars, colVars>>

\* if not opts.no_readme: create_readme_md(opts)
MainReadme ==
    /\ pc = "readme"
    /\ IF ~opts.no_readme
       THEN /\ Commit(create_readme_md(World), "package")
            /\ ran' = Append(ran, "readme")
       ELSE /\ Commit(World, "package")
            /\ UNCHANGED ran
    /\ UNCHANGED <<argv, out, resp, git_calls>>
    /\ UNCHANGED <<nameVars, colVars>>

\* if not opts.no_package: create_package_directory(opts)
MainPackage ==
    /\ pc = "package"
    /\ IF ~opts.no_package
       THEN /\ Commit(create_package_directory(World), "setup")
            /\ ran' = Append(ran, "package")
       ELSE /\ Commit(World, "setup")
            /\ UNCHANGED ran
    /\ UNCHANGED <<argv, out, resp, git_calls>>
    /\ UNCHANGED <<nameVars, colVars>>

\* if not opts.no_setup: create_setup_py(opts)
MainSetup ==
    /\ pc = "setup"
    /\ IF ~opts.no_setup
       THEN /\ Commit(create_setup_py(World), "ci")
            /\ ran' = Append(ran, "setup")
       ELSE /\ Commit(World, "ci")
            /\ UNCHANGED ran
    /\ UNCHANGED <<argv, out, resp, git_calls>>
    /\ UNCHANGED <<nameVars, colVars>>

\* if opts.ci: create_ci_config(opts); then the script ends
MainCi ==
    /\ pc = "ci"
    /\ IF opts.ci # None /\ Val(opts.ci) # <<>>
       THEN /\ Commit(create_ci_config(World), "done")
            /\ ran' = Append(ran, "ci")
       ELSE /\ Commit(World, "done")
            /\ UNCHANGED ran
    /\ UNCHANGED <<argv, out, resp, git_calls>>
    /\ UNCHANGED <<nameVars, colVars>>

PureIdle ==
    /\ name_in = <<>>
    /\ snake_out = None
    /\ hyph_out = None
    /\ col_in = <<>>
    /\ col_slices = None
    /\ col_rows = None

Init ==
    /\ argv \in Argvs
    /\ stdin \in SeqsUpTo(Lines, MaxStdin)
    /\ opts = NoOpts
    /\ pc = "start"
    /\ exit_code = None
    /\ error = "none"
    /\ files = EmptyFiles
    /\ dirs = {}
    /\ out = <<>>
    /\ asked = [f \in PromptFields |-> 0]
    /\ derived = [f \in PromptFields |-> 0]
    /\ ran = <<>>
    /\ resp = None
    /\ git_calls = 0
    /\ PureIdle

Next ==
    \/ ParseArgs
    \/ MainHelp
    \/ SetNow
    \/ GetAuthorName
    \/ GetAuthorEmail
    \/ \E r \in Responses : MainLicense(r)
    \/ MainReadme
    \/ MainPackage
    \/ MainSetup
    \/ MainCi

Spec == Init /\ [][Next]_vars

----------------------------------------------------------------------------
(* Specification of the name transforms: snake_case and hyphenated applied *)
(* to every name over a small alphabet.                                    *)

NameAlphabet == {"A", "b", "7", " ", "_", "-", "."}

MainIdle ==
    /\ argv = [help |-> None, license |-> None, ci |-> None,
               description |-> None, package |-> None, no_readme |-> FALSE,
               no_package |-> FALSE, no_pypi |-> FALSE, no_setup |-> FALSE]
    /\ stdin = <<>>
    /\ opts = NoOpts
    /\ exit_code = None
    /\ error = "none"
    /\ files = EmptyFiles
    /\ dirs = {}
    /\ out = <<>>
    /\ asked = [f \in PromptFields |-> 0]
    /\ derived = [f \in PromptFields |-> 0]
    /\ ran = <<>>
    /\ resp = None
    /\ git_calls = 0

InitNames ==
    /\ pc = "names"
    /\ name_in \in SeqsUpTo(NameAlphabet, MaxNameLen)
    /\ snake_out = None
    /\ hyph_out = None
    /\ col_in = <<>>
    /\ col_slices = None
    /\ col_rows = None
    /\ MainIdle

ApplyNames ==
    /\ pc = "names"
    /\ snake_out' = Some(snake_case(name_in))
    /\ hyph_out' = Some(hyphenated(name_in))
    /\ pc' = "names_done"
    /\ UNCHANGED <<name_in, colVars, mainVars>>

NextNames == ApplyNames

SpecNames == InitNames /\ [][NextNames]_vars

----------------------------------------------------------------------------
(* Specification of columnize: applied to every list of bounded length     *)
(* over two items.                                                         *)

Items == { <<"a">>, <<"b", "c">> }

InitColumnize ==
    /\ pc = "columns"
    /\ col_in \in SeqsUpTo(Items, MaxItems)
    /\ col_slices = None
    /\ col_rows = None
    /\ name_in = <<>>
    /\ snake_out = None
    /\ hyph_out = None
    /\ MainIdle

ApplyColumnize ==
    /\ pc = "columns"
    /\ col_slices' = Some(column_slices(col_in))
    /\ col_rows' = Some(columnize(col_in))
    /\ pc' = "columns_done"
    /\ UNCHANGED <<col_in, nameVars, mainVars>>

NextColumnize == ApplyColumnize

SpecColumnize == InitColumnize /\ [][NextColumnize]_vars

----------------------------------------------------------------------------
(* Specification of the license renderer: the run stands before            *)
(* create_license_md with a license selected, and the fetch returns a text *)
(* assembled from pieces, for several author names.                        *)

Pieces == { YEAR_TOKEN, FULLNAME_TOKEN, <<"[", "y", "e">>, <<"a", "r", "]">>,
            <<"c">> }

AuthorNames == { <<"J", " ", "D">>, <<>>, <<"a", "r", "]">>, YEAR_TOKEN,
                 FULLNAME_TOKEN }

LicenseYears == {1999, 2024}

LicenseArgv ==
    [help |-> None, license |-> Some(None), ci |-> None,
     description |-> None, package |-> None, no_readme |-> TRUE,
     no_package |-> TRUE, no_pypi |-> TRUE, no_setup |-> TRUE]

LicenseResponses ==
    { Response(FALSE, 200, Some(Flatten(ps))) :
          ps \in SeqsUpTo(Pieces, MaxPieces) }
    \cup { Response(FALSE, 404, None) }

InitLicense ==
    /\ pc = "license"
    /\ argv = LicenseArgv
    /\ stdin = <<>>
    /\ \E y \in LicenseYears, a \in AuthorNames :
          opts = [parse_args(LicenseArgv) EXCEPT
                     !.now = Some(y),
                     !.author_name = Some(a),
                     !.author_email = Some(<<"j", "@", "d">>)]
    /\ exit_code = None
    /\ error = "none"
    /\ files = EmptyFiles
    /\ dirs = {}
    /\ out = <<>>
    /\ asked = [f \in PromptFields |-> 0]
    /\ derived = [f \in PromptFields |-> 0]
    /\ ran = <<>>
    /\ resp = None
    /\ git_calls = 2
    /\ PureIdle

NextLicense == \E r \in LicenseResponses : MainLicense(r)

SpecLicense == InitLicense /\ [][NextLicense]_vars

----------------------------------------------------------------------------
(* Properties of the options resolver and of the run *)

OptionFields == PromptFields \cup {"help", "license", "ci", "now"}

\* C1: once a field of the options record holds a value, no later step
\* changes it, prompts for it or derives it again; every field is prompted
\* for or derived at most once per run.
C1_SetOnce ==
    [][\A f \in OptionFields :
          /\ opts[f] # None => opts'[f] = opts[f]
          /\ f \in PromptFields =>
                /\ opts[f] # None =>
                      asked'[f] = asked[f] /\ derived'[f] = derived[f]
                /\ asked'[f] + derived'[f] <= 1]_vars

\* C1 witness: a completed run in which README, package directory and
\* setup.py all asked for the package name, which was prompted for once.
C1_Witness ==
    /\ pc = "done"
    /\ Len(ran) >= 3
    /\ asked["package"] = 1
    /\ derived["package_snakecase"] = 1
    /\ derived["package_hyphenated"] = 1

\* C2: when the license fetch returns a status other than 200 the run ends
\* with exit code 1 and LICENSE is never written.
C2_FetchFailureIsFatal ==
    (resp # None /\ Val(resp).status_code # 200) =>
        /\ pc = "exited"
        /\ exit_code = Some(1)
        /\ Path("LICENSE") \notin DOMAIN files

\* C2 witness: a run ended by a non-200 response that carried a body.
C2_Witness ==
    /\ resp # None
    /\ Val(resp).status_code = 500
    /\ Val(resp).text # None
    /\ pc = "exited"
    /\ ran = <<"license">>

\* C3: whenever the help option is given, for every topic, the run prints
\* and ends with exit code 0 before any renderer, git lookup or fetch runs,
\* and no file is written.
C3_HelpExitsFirst ==
    (opts.help # None /\ pc # "parsed") =>
        /\ pc = "exited"
        /\ exit_code = Some(0)
        /\ out # <<>>
        /\ ran = <<>>
        /\ git_calls = 0
        /\ resp = None
        /\ files = EmptyFiles
        /\ dirs = {}

\* C3 witness: help on a topic mentioning "license" printed the heading,
\* the rows of the license table and the note, and the run has ended.
C3_Witness ==
    /\ opts.help # None
    /\ Contains(LICENSE_WORD, Val(opts.help))
    /\ pc = "exited"
    /\ Len(out) = 14
    /\ opts.license # None

Rank(r) ==
    CASE r = "license" -> 1
      [] r = "readme" -> 2
      [] r = "package" -> 3
      [] r = "setup" -> 4
      [] r = "ci" -> 5

InOrder(s) == \A i, j \in 1..Len(s) : i < j => Rank(s[i]) < Rank(s[j])

\* C4: renderers run in the order LICENSE, README.md, package directory,
\* setup.py, CI config; once a step has failed no renderer runs and nothing
\* is written any more; a file fully written stays in place unchanged.
C4_NoRecoveryNoRollback ==
    [][/\ InOrder(ran')
       /\ error # "none" =>
             pc = "exited" /\ ran' = ran /\ files' = files /\ dirs' = dirs
       /\ \A p \in DOMAIN files :
             files[p].complete =>
                 p \in DOMAIN files' /\ files'[p] = files[p]]_vars

\* C4 witness: a prompt failed at end of input in the third or a later
\* renderer, after earlier renderers had fully written their files.
C4_Witness ==
    /\ error = "EOFError"
    /\ pc = "exited"
    /\ Len(ran) >= 3
    /\ Path("README.md") \in DOMAIN files
    /\ files[Path("README.md")].complete

ExpectedFiles(o) ==
    (IF o.license # None THEN {Path("LICENSE")} ELSE {})
    \cup (IF ~o.no_readme THEN {Path("README.md")} ELSE {})
    \cup (IF ~o.no_package
          THEN {Join(snake_case(Val(o.package)), "__init__.py"),
                Join(snake_case(Val(o.package)), "__version__.py")}
          ELSE {})
    \cup (IF ~o.no_setup THEN {Path("setup.py")} ELSE {})
    \cup (IF o.ci # None THEN {Path(".travis.yml")} ELSE {})

ExpectedDirs(o) ==
    IF ~o.no_package THEN {snake_case(Val(o.package))} ELSE {}

\* C5: in a run that completes without error and without help, the
\* artifacts written are exactly those the flags select: LICENSE iff a
\* license is selected, README.md iff not no_readme, the package directory
\* with its two files iff not no_package, setup.py iff not no_setup,
\* .travis.yml iff a CI service is selected, and nothing else.
C5_ArtifactsFollowFlags ==
    pc = "done" =>
        /\ exit_code = Some(0)
        /\ DOMAIN files = ExpectedFiles(opts)
        /\ \A p \in DOMAIN files : files[p].complete
        /\ dirs = ExpectedDirs(opts)

\* C5 witness: a completed run with some artifacts selected and others
\* suppressed.
C5_Witness ==
    /\ pc = "done"
    /\ opts.license # None
    /\ opts.no_readme
    /\ ~opts.no_package
    /\ opts.no_setup
    /\ opts.ci # None

\* C10: if package_snakecase is set then package is set and
\* package_snakecase = snake_case(package); likewise package_hyphenated
\* and hyphenated(package); a derived field is never set while package is
\* unset.
C10_DerivedFollowPackage ==
    /\ opts.package_snakecase # None =>
          /\ opts.package # None
          /\ Val(opts.package_snakecase) = snake_case(Val(opts.package))
    /\ opts.package_hyphenated # None =>
          /\ opts.package # None
          /\ Val(opts.package_hyphenated) = hyphenated(Val(opts.package))

\* C10 witness: both derived fields are set from a prompted package name
\* that the transforms change.
C10_Witness ==
    /\ opts.package_snakecase # None
    /\ opts.package_hyphenated # None
    /\ asked["package"] = 1
    /\ Val(opts.package_snakecase) # Val(opts.package)
    /\ Val(opts.package_hyphenated) # Val(opts.package_snakecase)

----------------------------------------------------------------------------
(* Properties of the name transforms *)

LowerSet == Range(LowerLetters)

LetterSet == Range(LowerLetters) \cup Range(Upper)

DigitSet == Range(Digits)

Separators == {" ", "_", "-"}

NamesWellFormed ==
    /\ Range(Val(snake_out)) \subseteq LowerSet \cup DigitSet \cup {"_"}
    /\ Range(Val(hyph_out)) \subseteq LowerSet \cup DigitSet \cup {"-"}

\* C6 as stated: for every package name containing a space, an underscore
\* or a hyphen, snake_case yields only lowercase letters, digits and
\* underscores and hyphenated only lowercase letters, digits and hyphens.
C6_Original ==
    (snake_out # None /\ Range(name_in) \cap Separators # {}) =>
        NamesWellFormed

\* C6 amended: for every package name made up only of ASCII letters,
\* digits, spaces, underscores and hyphens, snake_case yields only
\* lowercase letters, digits and underscores and hyphenated only lowercase
\* letters, digits and hyphens.
C6_Amended ==
    (snake_out # None
     /\ Range(name_in) \subseteq LetterSet \cup DigitSet \cup Separators) =>
        NamesWellFormed

\* C6 witness: the transforms were applied to a name with an uppercase
\* letter, a space and a hyphen.
C6_Witness ==
    /\ snake_out # None
    /\ name_in = <<"A", " ", "-">>
    /\ Val(snake_out) = <<"a", "_", "_">>
    /\ Val(hyph_out) = <<"a", "-", "-">>

----------------------------------------------------------------------------
(* Properties of columnize *)

Field(row, k) ==
    CASE k = 1 -> RStrip(SubSeq(row, 1, FieldWidth))
      [] k = 2 -> RStrip(SubSeq(row, FieldWidth + 2, 2 * FieldWidth + 1))
      [] k = 3 -> SubSeq(row, 2 * FieldWidth + 3, Len(row))

NonEmpty(s) == s # <<>>

\* the non-empty cells of column k of the rows, top to bottom
ColumnCells(rows, k) ==
    SelectSeq([i \in 1..Len(rows) |-> Field(rows[i], k)], NonEmpty)

\* C7: columnize loses and duplicates no item: the three columns are
\* consecutive slices whose concatenation is the input list, and the cells
\* of the emitted rows, read column by column, are exactly the input items,
\* each once.
C7_NoItemLostOrDuplicated ==
    col_rows # None =>
        /\ Val(col_slices)[1] \o Val(col_slices)[2] \o Val(col_slices)[3]
               = col_in
        /\ ColumnCells(Val(col_rows), 1) \o ColumnCells(Val(col_rows), 2)
               \o ColumnCells(Val(col_rows), 3) = col_in

\* C7 witness: columnize was applied to a list whose length is not a
\* multiple of three, so one column is longer than the others.
C7_Witness ==
    /\ col_rows # None
    /\ Len(col_in) = 5
    /\ Len(Val(col_rows)) = 3

\* C8 as stated: the columns are items [0, len/3), [len/3, 2*len/3) and
\* [2*len/3, len), with integer division.
C8_Original ==
    col_slices # None =>
        LET n == Len(col_in)
        IN  /\ Val(col_slices)[1] = SubSeq(col_in, 1, n \div 3)
            /\ Val(col_slices)[2] =
                   SubSeq(col_in, (n \div 3) + 1, (2 * n) \div 3)
            /\ Val(col_slices)[3] =
                   SubSeq(col_in, ((2 * n) \div 3) + 1, n)

CellOrEmpty(lst, i) == IF i <= Len(lst) THEN lst[i] ELSE <<>>

\* C8 amended: with split = len/3 (integer division) the columns are items
\* [0, split), [split, 2*split) and [2*split, len): the second split point
\* is twice the first, not 2*len/3; row i shows items i, split+i and
\* 2*split+i.
C8_Amended ==
    col_slices # None =>
        LET n == Len(col_in)
            split == n \div 3
        IN  /\ Val(col_slices)[1] = SubSeq(col_in, 1, split)
            /\ Val(col_slices)[2] = SubSeq(col_in, split + 1, 2 * split)
            /\ Val(col_slices)[3] = SubSeq(col_in, 2 * split + 1, n)
            /\ Len(Val(col_rows)) = n - 2 * split
            /\ \A i \in 1..Len(Val(col_rows)) :
                  /\ Field(Val(col_rows)[i], 1) =
                         (IF i <= split THEN col_in[i] ELSE <<>>)
                  /\ Field(Val(col_rows)[i], 2) =
                         (IF i <= split THEN col_in[split + i] ELSE <<>>)
                  /\ Field(Val(col_rows)[i], 3) =
                         CellOrEmpty(col_in, 2 * split + i)

\* C8 witness: a list of five items, where len/3 = 1, 2*(len/3) = 2 and
\* 2*len/3 = 3.
C8_Witness ==
    /\ col_slices # None
    /\ Len(col_in) = 5
    /\ Len(Val(col_slices)[2]) = 1
    /\ Len(Val(col_slices)[3]) = 3

----------------------------------------------------------------------------
(* Properties of the license renderer *)

LicenseWritten ==
    /\ Path("LICENSE") \in DOMAIN files
    /\ files[Path("LICENSE")].complete

LicenseText == files[Path("LICENSE")].text

FetchSucceeded ==
    resp # None /\ Val(resp).status_code = 200 /\ Val(resp).text # None

Fetched == Val(Val(resp).text)

HasToken(t) == Contains(YEAR_TOKEN, t) \/ Contains(FULLNAME_TOKEN, t)

RECURSIVE SubstFrom(_, _, _, _)
\* one left-to-right pass that puts year for [year] and name for [fullname]
SubstFrom(s, i, year, name) ==
    IF i > Len(s) THEN <<>>
    ELSE IF StartsWithAt(s, i, YEAR_TOKEN)
         THEN year \o SubstFrom(s, i + Len(YEAR_TOKEN), year, name)
    ELSE IF StartsWithAt(s, i, FULLNAME_TOKEN)
         THEN name \o SubstFrom(s, i + Len(FULLNAME_TOKEN), year, name)
    ELSE <<s[i]>> \o SubstFrom(s, i + 1, year, name)

Substituted ==
    SubstFrom(Fetched, 1, StrftimeY(Val(opts.now)), Val(opts.author_name))

BracketFree(s) == "[" \notin Range(s) /\ "]" \notin Range(s)

\* every bracket of t belongs to a [year] or [fullname] token
TokensOnly(t) ==
    \A i \in 1..Len(t) :
        /\ t[i] = "[" =>
              \/ StartsWithAt(t, i, YEAR_TOKEN)
              \/ StartsWithAt(t, i, FULLNAME_TOKEN)
        /\ t[i] = "]" =>
              \/ i >= Len(YEAR_TOKEN)
                   /\ StartsWithAt(t, i - Len(YEAR_TOKEN) + 1, YEAR_TOKEN)
              \/ i >= Len(FULLNAME_TOKEN)
                   /\ StartsWithAt(t, i - Len(FULLNAME_TOKEN) + 1,
                                   FULLNAME_TOKEN)

\* C9 as stated: for every fetched text and every author name, when the
\* fetch succeeds LICENSE holds the fetched text with the year put for
\* [year] and the author name for [fullname], and no [year] or [fullname]
\* token remains in it.
C9_Original ==
    FetchSucceeded =>
        /\ LicenseWritten
        /\ LicenseText = Substituted
        /\ ~HasToken(LicenseText)

\* C9 amended: when the fetch succeeds LICENSE holds the fetched text with
\* the year put for every [year] and the author name for every [fullname];
\* no [year] or [fullname] token remains in it provided the author name
\* contains no '[' or ']' and every '[' or ']' of the fetched text belongs
\* to a [year] or [fullname] token.
C9_Amended ==
    FetchSucceeded =>
        /\ LicenseWritten
        /\ LicenseText = Substituted
        /\ (BracketFree(Val(opts.author_name)) /\ TokensOnly(Fetched)) =>
               ~HasToken(LicenseText)

\* C9 witness: LICENSE was written from a text holding both tokens and
\* other text, for a non-empty author name without brackets.
C9_Witness ==
    /\ FetchSucceeded
    /\ LicenseWritten
    /\ Contains(YEAR_TOKEN, Fetched)
    /\ Contains(FULLNAME_TOKEN, Fetched)
    /\ Contains(<<"c">>, Fetched)
    /\ TokensOnly(Fetched)
    /\ Val(opts.author_name) = <<"J", " ", "D">>
    /\ ~HasToken(LicenseText)

====
